---------------------------- MODULE Spec2Model ----------------------------
(***************************************************************************)
(* The block store of consensus/src/block_storage/block_store.rs: a block  *)
(* tree behind one readers-writer lock, a persistent log and an executor.  *)
(* Every acquisition of the tree lock and every call on the log or on the  *)
(* executor is one step, so calls of several threads and the executor's    *)
(* commit callbacks interleave at exactly the places where the code holds  *)
(* no lock.  BlockTree (block_tree.rs) is modelled from the specification. *)
(***************************************************************************)
EXTENDS Integers, Sequences, FiniteSets, TLC

\* ------------------------------------------------------------- bounds
\* API calls started over one behaviour, the commits that try_commit starts
\* at construction counted among them.
MaxCalls == 2
\* Greatest round of a timeout certificate handed to the store.
MaxTcRound == 2
\* max_pruned_blocks_in_mem handed to the constructor.
MaxPrunedBlocksInMem == 1
\* Greatest reading of the local clock.
MaxTime == 1

Threads == {"t1", "t2"}

\* ------------------------------------------------------------- blocks
\* The blocks the network can deliver.  Parent links:
\*     G --> B1 --> B2 --> B3
\*     G --> D2
NoBlock == "none"
Blocks == {"G", "B1", "B2", "B3", "D2"}
\* The blocks that callers hand to the store after construction (B3 is known
\* from recovery only).
Delivered == Blocks \ {"B3"}

ParentOf(b) ==
    CASE b = "B1" -> "G"
      [] b = "B2" -> "B1"
      [] b = "B3" -> "B2"
      [] b = "D2" -> "G"
      [] OTHER -> NoBlock

RoundOf(b) ==
    CASE b = "B1" -> 1
      [] b = "B2" -> 2
      [] b = "B3" -> 3
      [] b = "D2" -> 2
      [] OTHER -> 0

\* Block::timestamp_usecs, monotone along parent chains.
TimestampOf(b) == IF b = "G" THEN 0 ELSE 1

\* A quorum certificate: the block it certifies, the block its commit_info
\* names (NoBlock: the zero block of a non-committing QC), and whether its
\* certified block info equals the stored block's in the ordered-only fields.
QuorumCert(c, m, ok) == [cert |-> c, commit |-> m, matches |-> ok]
CommitRound(qc) == IF qc.commit = NoBlock THEN 0 ELSE RoundOf(qc.commit)

\* The certificates of a root block (RootInfo): root_qc and root_ordered_cert.
RootCert(r) == QuorumCert(r, r, TRUE)

\* The quorum certificates the network can deliver.
QcInputs ==
    { QuorumCert("B1", NoBlock, TRUE),
      QuorumCert("B2", "B1", TRUE),
      QuorumCert("D2", NoBlock, TRUE),
      QuorumCert("B2", NoBlock, FALSE) }

TcRounds == 0..MaxTcRound

\* ------------------------------------------------------------- BlockTree
\* BlockTree::new
NewTree(root, htc) ==
    [ blocks       |-> {root},
      qcs          |-> {RootCert(root)},
      ordered_root |-> root,
      commit_root  |-> root,
      hcb          |-> root,
      hqc          |-> RootCert(root),
      hoc          |-> RootCert(root),
      hli          |-> root,
      htc          |-> htc,
      pruned       |-> << >> ]

\* BlockTree::get_block
GetBlock(tr, id) == id \in tr.blocks

\* BlockTree::insert_block: [ok, tree]
InsertBlock(tr, b) ==
    IF b \in tr.blocks THEN [ok |-> TRUE, tree |-> tr]
    ELSE IF ParentOf(b) \notin tr.blocks THEN [ok |-> FALSE, tree |-> tr]
    ELSE IF RoundOf(b) <= RoundOf(ParentOf(b)) THEN [ok |-> FALSE, tree |-> tr]
    ELSE [ok   |-> TRUE,
          tree |-> [tr EXCEPT !.blocks = @ \cup {b},
                              !.hcb = IF RoundOf(ParentOf(b)) > RoundOf(@)
                                      THEN ParentOf(b) ELSE @]]

\* InsertQuorumCert with the QC index looked up by certified block id only: a
\* QC is ignored where its own block has one, whatever the rounds of the rest.
InsertQuorumCert_KeyedByBlock(tr, qc) ==
    IF qc.cert \notin tr.blocks \/ ~qc.matches THEN [ok |-> FALSE, tree |-> tr]
    ELSE IF \E q \in tr.qcs : q.cert = qc.cert
    THEN [ok |-> TRUE, tree |-> tr]
    ELSE [ok   |-> TRUE,
          tree |-> [tr EXCEPT
                      !.qcs = @ \cup {qc},
                      !.hcb = IF RoundOf(qc.cert) > RoundOf(@) THEN qc.cert ELSE @,
                      !.hqc = IF RoundOf(qc.cert) > RoundOf(@.cert) THEN qc ELSE @,
                      !.hoc = IF CommitRound(qc) > CommitRound(@) THEN qc ELSE @,
                      !.hli = IF qc.commit # NoBlock /\ CommitRound(qc) > RoundOf(@)
                              THEN qc.commit ELSE @]]

\* BlockTree::insert_quorum_cert: [ok, tree]
InsertQuorumCert(tr, qc) ==
    IF qc.cert \notin tr.blocks \/ ~qc.matches THEN [ok |-> FALSE, tree |-> tr]
    ELSE IF \E q \in tr.qcs : RoundOf(q.cert) = RoundOf(qc.cert)
    THEN [ok |-> TRUE, tree |-> tr]
    ELSE [ok   |-> TRUE,
          tree |-> [tr EXCEPT
                      !.qcs = @ \cup {qc},
                      !.hcb = IF RoundOf(qc.cert) > RoundOf(@) THEN qc.cert ELSE @,
                      !.hqc = IF RoundOf(qc.cert) > RoundOf(@.cert) THEN qc ELSE @,
                      !.hoc = IF CommitRound(qc) > CommitRound(@) THEN qc ELSE @,
                      !.hli = IF qc.commit # NoBlock /\ CommitRound(qc) > RoundOf(@)
                              THEN qc.commit ELSE @]]

\* BlockTree::replace_timeout_cert
ReplaceTimeoutCert(tr, r) == [tr EXCEPT !.htc = {r}]

\* BlockTree::update_ordered_root_id
UpdateOrderedRootId(tr, id) == [tr EXCEPT !.ordered_root = id]

\* BlockTree::update_highest_ledger_info
UpdateHighestLedgerInfo(tr, id) == [tr EXCEPT !.hli = id]

\* The ids of `s` in an order with children before parents (greater round
\* first; the order among blocks of one round is fixed by the id).
RECURSIVE ChildrenFirst(_)
ChildrenFirst(s) ==
    IF s = {} THEN << >>
    ELSE LET top == CHOOSE x \in s : \A y \in s : RoundOf(y) <= RoundOf(x)
         IN  <<top>> \o ChildrenFirst(s \ {top})

\* Whether `b` is `a` or reaches `a` by parent links through blocks of `blks`,
\* on a chain that does not hold `avoid`.
RECURSIVE Reaches(_, _, _, _)
Reaches(blks, a, b, avoid) ==
    IF b = avoid \/ b = NoBlock \/ b \notin blks THEN FALSE
    ELSE IF b = a THEN TRUE
    ELSE Reaches(blks, a, ParentOf(b), avoid)

\* BlockTree::find_blocks_to_prune: every block reachable from the commit
\* root by child links, the subtree of next_root_id left out.
FindBlocksToPrune(tr, next_root_id) ==
    IF next_root_id = tr.commit_root THEN << >>
    ELSE ChildrenFirst(
           { b \in tr.blocks : Reaches(tr.blocks, tr.commit_root, b, next_root_id) })

Range(s) == { s[i] : i \in DOMAIN s }

\* The last n elements of s.
LastN(s, n) == IF Len(s) <= n THEN s ELSE SubSeq(s, Len(s) - n + 1, Len(s))

\* BlockTree::update_commit_id_and_process_pruned_blocks
UpdateCommitIdAndProcessPrunedBlocks(tr, root_id, ids) ==
    [tr EXCEPT !.commit_root = root_id,
               !.blocks = @ \ Range(ids),
               !.qcs    = { q \in @ : q.cert \notin Range(ids) },
               !.pruned = LastN(@ \o ids, MaxPrunedBlocksInMem)]

\* BlockTree::path_from_root_to_block: [found, path]; the chain from the
\* child of the root to id, walking parent links while the round is above
\* the root's.
RECURSIVE PathFromRootToBlock(_, _, _)
PathFromRootToBlock(tr, id, root) ==
    IF id \notin tr.blocks THEN [found |-> FALSE, path |-> << >>]
    ELSE IF RoundOf(id) <= RoundOf(root)
         THEN [found |-> (id = root), path |-> << >>]
         ELSE LET up == PathFromRootToBlock(tr, ParentOf(id), root)
              IN  [found |-> up.found,
                   path  |-> IF up.found THEN Append(up.path, id) ELSE << >>]

\* BlockReader::path_from_ordered_root(..).unwrap_or_else(Vec::new)
PathFromOrderedRoot(tr, id) == PathFromRootToBlock(tr, id, tr.ordered_root).path

\* ------------------------------------------------------------- state
VARIABLES
    tree,      \* BlockStore::inner, the BlockTree behind the RwLock
    log,       \* BlockStore::storage: the block table, the QC table, the TC slot
    th,        \* per thread: the call it is in, its position and its locals
    cbs,       \* the commit callbacks the executor holds and has not finished
    aborted,   \* the process has panicked
    ncalls,    \* API calls started (and try_commit's commits at construction)
    nhandoff,  \* commits handed to the executor
    now,       \* the reading of the local clock (time_service)
    hist       \* what save_tree / save_highest_timeout_cert accepted so far,
               \* the roots supplied at construction and rebuild, the
               \* rebuild calls made, the blocks of blocks_to_commit of
               \* the commits that have advanced the ordered root, and
               \* whether a call on the log has failed

vars == <<tree, log, th, cbs, aborted, ncalls, nhandoff, now, hist>>

NoQc == QuorumCert(NoBlock, NoBlock, FALSE)

\* A thread outside any call.
Idle ==
    [ pc |-> "idle", op |-> "none", blk |-> NoBlock, qc |-> NoQc, tc |-> 0,
      path |-> << >>, res |-> "none", eff |-> {}, certs |-> << >>,
      newtree |-> << >>, ids |-> {}, inp |-> << >> ]

\* panic!, assert!, expect: the process aborts.
Panic ==
    /\ aborted' = TRUE
    /\ UNCHANGED <<tree, log, th, cbs, ncalls, nhandoff, hist, now>>

\* A call returns `res` to its caller: the thread is free for its next call
\* and keeps the result of its last one with the block, the QC or the TC it
\* was about.
Returned(rec, res) ==
    [Idle EXCEPT !.res = res, !.blk = rec.blk, !.qc = rec.qc, !.tc = rec.tc]

\* ------------------------------------------------- construction (build)
\* BuildBlocks with a failed insertion skipped instead of a panic.
RECURSIVE BuildBlocks_ErrorSkipped(_, _)
BuildBlocks_ErrorSkipped(st, blocks) ==
    IF blocks = << >> THEN st
    ELSE LET b == Head(blocks)
             r == IF GetBlock(st.tree, b) THEN st
                  ELSE IF ~(RoundOf(st.tree.ordered_root) < RoundOf(b))
                       THEN st
                       ELSE LET i == InsertBlock(st.tree, b)
                            IN  IF i.ok THEN i ELSE st
         IN  BuildBlocks_ErrorSkipped(r, Tail(blocks))

\* BlockStore::build, the loop over the recovered blocks: [ok, tree].
RECURSIVE BuildBlocks(_, _)
BuildBlocks(st, blocks) ==
    IF blocks = << >> \/ ~st.ok THEN st
    ELSE LET b == Head(blocks)
             r == IF GetBlock(st.tree, b) THEN st
                  ELSE IF ~(RoundOf(st.tree.ordered_root) < RoundOf(b))
                       THEN [ok |-> FALSE, tree |-> st.tree]
                       ELSE InsertBlock(st.tree, b)
         IN  BuildBlocks(r, Tail(blocks))

\* BlockStore::build, the loop over the recovered quorum certificates.
RECURSIVE BuildQcs(_, _)
BuildQcs(st, qcs) ==
    IF qcs = << >> \/ ~st.ok THEN st
    ELSE BuildQcs(InsertQuorumCert(st.tree, Head(qcs)), Tail(qcs))

\* BlockStore::build: [ok, tree]; ok is FALSE where build panics.
Build(root, blocks, qcs, htc) ==
    BuildQcs(BuildBlocks([ok |-> TRUE, tree |-> NewTree(root, htc)], blocks), qcs)

\* The recovery data a store is constructed from (root: genesis): the
\* recovered blocks and quorum certificates.  The last one holds two QCs with
\* commit info, listed out of order.
RecoveryData ==
    { [blocks |-> << >>, qcs |-> << >>],
      [blocks |-> <<"B1", "B2">>, qcs |-> << >>],
      [blocks |-> <<"B1", "B2", "D2">>, qcs |-> << >>],
      [blocks |-> <<"B1", "B2", "B3">>,
       qcs |-> <<QuorumCert("B3", "B2", TRUE), QuorumCert("B2", "B1", TRUE)>>] }

\* The least reading of the clock at which wait_until has let every block of
\* `s` pass.
TimeReached(s) == IF s = {} THEN 0 ELSE CHOOSE m \in 0..MaxTime :
                                          /\ \A b \in s : TimestampOf(b) <= m
                                          /\ \E b \in s : TimestampOf(b) = m

\* BlockStore::new after Self::build, about to run block_on(try_commit()) in
\* the constructing thread.
Init ==
    \E data \in RecoveryData :
        /\ tree = Build("G", data.blocks, data.qcs, {}).tree
        /\ now = TimeReached(Range(data.blocks))
        /\ log = [blocks |-> Range(data.blocks), qcs |-> Range(data.qcs), tc |-> {}]
        /\ th = [t \in Threads |->
                   IF t = "t1" THEN [Idle EXCEPT !.op = "new", !.pc = "try_certs"]
                   ELSE Idle]
        /\ cbs = {}
        /\ aborted = FALSE
        /\ ncalls = Len(data.qcs)
        /\ nhandoff = 0
        /\ hist = [blocks |-> Range(data.blocks), qcs |-> Range(data.qcs),
                   tcs |-> {}, roots |-> {"G"}, rebuilds |-> 0, handed |-> {},
                   logfail |-> FALSE]

\* BlockStore::new has returned the store: its callers can call it.
Constructed == \A t \in Threads : th[t].op # "new"

\* ------------------------------------------ execute_and_insert_block
\* EI_GetBlock without the look-up of the block: every call goes on.
EI_GetBlock_NoLookup(t, b) ==
    /\ ~aborted
    /\ th[t].pc = "idle"
    /\ ncalls < MaxCalls
    /\ ncalls' = ncalls + 1
    /\ th' = [th EXCEPT ![t] = [Idle EXCEPT !.op = "insert", !.blk = b, !.pc = "ei_round"]]
    /\ UNCHANGED <<tree, log, cbs, aborted, nhandoff, hist, now>>

\* self.get_block(block.id()): a block already present is returned.
EI_GetBlock(t, b) ==
    /\ ~aborted
    /\ th[t].pc = "idle"
    /\ ncalls < MaxCalls
    /\ ncalls' = ncalls + 1
    /\ th' = [th EXCEPT ![t] =
                IF GetBlock(tree, b)
                THEN Returned([Idle EXCEPT !.op = "insert", !.blk = b], "ei_ok_existing")
                ELSE [Idle EXCEPT !.op = "insert", !.blk = b, !.pc = "ei_round"]]
    /\ UNCHANGED <<tree, log, cbs, aborted, nhandoff, hist, now>>

\* EI_RoundCheck with <= for <: a block of the ordered root's round passes.
EI_RoundCheck_OffByOne(t) ==
    /\ ~aborted
    /\ th[t].pc = "ei_round"
    /\ IF tree.ordered_root \notin tree.blocks
       THEN Panic
       ELSE /\ th' = [th EXCEPT ![t] =
                        IF RoundOf(tree.ordered_root) <= RoundOf(th[t].blk)
                        THEN [@ EXCEPT !.pc = "ei_exec"]
                        ELSE Returned(@, "ei_err_old_round")]
            /\ UNCHANGED <<tree, log, cbs, aborted, ncalls, nhandoff, hist, now>>

\* ensure!(ordered_root().round() < block.round(), "Block with old round")
EI_RoundCheck(t) ==
    /\ ~aborted
    /\ th[t].pc = "ei_round"
    /\ IF tree.ordered_root \notin tree.blocks
       THEN Panic
       ELSE /\ th' = [th EXCEPT ![t] =
                        IF RoundOf(tree.ordered_root) < RoundOf(th[t].blk)
                        THEN [@ EXCEPT !.pc = "ei_exec"]
                        ELSE Returned(@, "ei_err_old_round")]
            /\ UNCHANGED <<tree, log, cbs, aborted, ncalls, nhandoff, hist, now>>

\* self.execute_block(block): the executor computes, reports
\* BlockNotFound(parent), or fails otherwise.
EI_Execute(t) ==
    /\ ~aborted
    /\ th[t].pc = "ei_exec"
    /\ \E out \in {"ok", "block_not_found", "err"} :
         th' = [th EXCEPT ![t] =
                  CASE out = "ok" ->
                         [@ EXCEPT !.pc = "ei_wait", !.eff = @ \cup {"compute"}]
                    [] out = "block_not_found" ->
                         [@ EXCEPT !.pc = "ei_reexec", !.eff = @ \cup {"compute"}]
                    [] OTHER ->
                         Returned([@ EXCEPT !.eff = @ \cup {"compute"}], "ei_err_execute")]
    /\ UNCHANGED <<tree, log, cbs, aborted, ncalls, nhandoff, hist, now>>

\* EI_Reexecute without the loop over blocks_to_reexecute: the block alone
\* is executed again.
EI_Reexecute_SkipsChain(t) ==
    /\ ~aborted
    /\ th[t].pc = "ei_reexec"
    /\ IF tree.ordered_root \notin tree.blocks
       THEN Panic
       ELSE /\ \E ok \in BOOLEAN :
                 th' = [th EXCEPT ![t] =
                          IF ok
                          THEN [@ EXCEPT !.pc = "ei_wait", !.path = <<th[t].blk>>]
                          ELSE Returned(@, "ei_err_execute")]
            /\ UNCHANGED <<tree, log, cbs, aborted, ncalls, nhandoff, hist, now>>

\* The recovery from BlockNotFound(parent): the blocks of
\* path_from_ordered_root(parent).unwrap_or_else(Vec::new) are executed again
\* in the order of the list, then the block; the first error is returned.
\* (path: the blocks the executor has computed in this recovery.)
EI_Reexecute(t) ==
    /\ ~aborted
    /\ th[t].pc = "ei_reexec"
    /\ IF tree.ordered_root \notin tree.blocks
       THEN Panic
       ELSE /\ \E ok \in BOOLEAN :
                 th' = [th EXCEPT ![t] =
                          IF ok
                          THEN [@ EXCEPT
                                  !.pc = "ei_wait",
                                  !.path = Append(
                                      PathFromOrderedRoot(tree, ParentOf(th[t].blk)),
                                      th[t].blk)]
                          ELSE Returned(@, "ei_err_execute")]
            /\ UNCHANGED <<tree, log, cbs, aborted, ncalls, nhandoff, hist, now>>

\* EI_Wait that returns at once, whatever the clock reads.
EI_Wait_NoWait(t) ==
    /\ ~aborted
    /\ th[t].pc = "ei_wait"
    /\ th' = [th EXCEPT ![t] = [@ EXCEPT !.pc = "ei_save", !.path = << >>]]
    /\ UNCHANGED <<tree, log, cbs, aborted, ncalls, nhandoff, hist, now>>

\* self.time_service.wait_until(block_time): returns once the local clock
\* has reached the timestamp of the block.
EI_Wait(t) ==
    /\ ~aborted
    /\ th[t].pc = "ei_wait"
    /\ now >= TimestampOf(th[t].blk)
    /\ th' = [th EXCEPT ![t] = [@ EXCEPT !.pc = "ei_save", !.path = << >>]]
    /\ UNCHANGED <<tree, log, cbs, aborted, ncalls, nhandoff, hist, now>>

\* EI_Save with the error of save_tree dropped: the call goes on to the tree.
EI_Save_ErrorIgnored(t) ==
    /\ ~aborted
    /\ th[t].pc = "ei_save"
    /\ \E ok \in BOOLEAN :
         IF ok
         THEN /\ log' = [log EXCEPT !.blocks = @ \cup {th[t].blk}]
              /\ hist' = [hist EXCEPT !.blocks = @ \cup {th[t].blk}]
              /\ th' = [th EXCEPT ![t] =
                          [@ EXCEPT !.pc = "ei_insert", !.path = << >>,
                                    !.eff = @ \cup {"save"}]]
         ELSE /\ th' = [th EXCEPT ![t] = [@ EXCEPT !.pc = "ei_insert", !.path = << >>]]
              /\ hist' = [hist EXCEPT !.logfail = TRUE]
              /\ log' = log
    /\ UNCHANGED <<tree, cbs, aborted, ncalls, nhandoff, now>>

\* EI_Save with the tree written before the log.
EI_Save_TreeFirst(t) ==
    /\ ~aborted
    /\ th[t].pc = "ei_save"
    /\ tree' = InsertBlock(tree, th[t].blk).tree
    /\ \E ok \in BOOLEAN :
         IF ok
         THEN /\ log' = [log EXCEPT !.blocks = @ \cup {th[t].blk}]
              /\ hist' = [hist EXCEPT !.blocks = @ \cup {th[t].blk}]
              /\ th' = [th EXCEPT ![t] =
                          [@ EXCEPT !.pc = "ei_insert", !.path = << >>,
                                    !.eff = @ \cup {"save"}]]
         ELSE /\ th' = [th EXCEPT ![t] = Returned(@, "ei_err_save")]
              /\ hist' = [hist EXCEPT !.logfail = TRUE]
              /\ log' = log
    /\ UNCHANGED <<cbs, aborted, ncalls, nhandoff, now>>

\* self.storage.save_tree(vec![block], vec![]), which can fail.
EI_Save(t) ==
    /\ ~aborted
    /\ th[t].pc = "ei_save"
    /\ \E ok \in BOOLEAN :
         IF ok
         THEN /\ log' = [log EXCEPT !.blocks = @ \cup {th[t].blk}]
              /\ hist' = [hist EXCEPT !.blocks = @ \cup {th[t].blk}]
              /\ th' = [th EXCEPT ![t] =
                          [@ EXCEPT !.pc = "ei_insert", !.path = << >>,
                                    !.eff = @ \cup {"save"}]]
         ELSE /\ th' = [th EXCEPT ![t] = Returned(@, "ei_err_save")]
              /\ hist' = [hist EXCEPT !.logfail = TRUE]
              /\ log' = log
    /\ UNCHANGED <<tree, cbs, aborted, ncalls, nhandoff, now>>

\* EI_Insert with the ordered root moved to the inserted block.
EI_Insert_MovesOrderedRoot(t) ==
    /\ ~aborted
    /\ th[t].pc = "ei_insert"
    /\ LET r == InsertBlock(tree, th[t].blk)
       IN  /\ tree' = IF r.ok THEN UpdateOrderedRootId(r.tree, th[t].blk) ELSE r.tree
           /\ th' = [th EXCEPT ![t] =
                       Returned([@ EXCEPT !.eff = IF r.tree # tree
                                                  THEN @ \cup {"tree"} ELSE @],
                                IF r.ok THEN "ei_ok" ELSE "ei_err_insert")]
    /\ UNCHANGED <<log, cbs, aborted, ncalls, nhandoff, hist, now>>

\* self.inner.write().insert_block(executed_block)
EI_Insert(t) ==
    /\ ~aborted
    /\ th[t].pc = "ei_insert"
    /\ LET r == InsertBlock(tree, th[t].blk)
       IN  /\ tree' = r.tree
           /\ th' = [th EXCEPT ![t] =
                       Returned([@ EXCEPT !.eff = IF r.tree # tree
                                                  THEN @ \cup {"tree"} ELSE @],
                                IF r.ok THEN "ei_ok" ELSE "ei_err_insert")]
    /\ UNCHANGED <<log, cbs, aborted, ncalls, nhandoff, hist, now>>

ExecuteAndInsertBlock(t) ==
    \/ \E b \in Delivered \ {"G"} : EI_GetBlock(t, b)
    \/ EI_RoundCheck(t)
    \/ EI_Execute(t)
    \/ EI_Reexecute(t)
    \/ EI_Wait(t)
    \/ EI_Save(t)
    \/ EI_Insert(t)

\* ------------------------------------------ insert_single_quorum_cert
\* QC_GetBlock with a QC that the tree already holds refused as a duplicate.
QC_GetBlock_RejectsKnown(t, q) ==
    /\ ~aborted
    /\ th[t].pc = "idle"
    /\ ncalls < MaxCalls
    /\ ncalls' = ncalls + 1
    /\ th' = [th EXCEPT ![t] =
                IF ~GetBlock(tree, q.cert)
                THEN Returned([Idle EXCEPT !.op = "qc", !.qc = q], "qc_err_no_block")
                ELSE IF ~q.matches \/ q \in tree.qcs
                THEN Returned([Idle EXCEPT !.op = "qc", !.qc = q], "qc_err_mismatch")
                ELSE [Idle EXCEPT !.op = "qc", !.qc = q, !.pc = "qc_save"]]
    /\ UNCHANGED <<tree, log, cbs, aborted, nhandoff, hist, now>>

\* QC_GetBlock without the look-up of the certified block.
QC_GetBlock_NoLookup(t, q) ==
    /\ ~aborted
    /\ th[t].pc = "idle"
    /\ ncalls < MaxCalls
    /\ ncalls' = ncalls + 1
    /\ th' = [th EXCEPT ![t] =
                IF ~q.matches
                THEN Returned([Idle EXCEPT !.op = "qc", !.qc = q], "qc_err_mismatch")
                ELSE [Idle EXCEPT !.op = "qc", !.qc = q, !.pc = "qc_save"]]
    /\ UNCHANGED <<tree, log, cbs, aborted, nhandoff, hist, now>>

\* QC_GetBlock without the ensure! on match_ordered_only.
QC_GetBlock_NoMatch(t, q) ==
    /\ ~aborted
    /\ th[t].pc = "idle"
    /\ ncalls < MaxCalls
    /\ ncalls' = ncalls + 1
    /\ th' = [th EXCEPT ![t] =
                IF ~GetBlock(tree, q.cert)
                THEN Returned([Idle EXCEPT !.op = "qc", !.qc = q], "qc_err_no_block")
                ELSE [Idle EXCEPT !.op = "qc", !.qc = q, !.pc = "qc_save"]]
    /\ UNCHANGED <<tree, log, cbs, aborted, nhandoff, hist, now>>

\* self.get_block(qc.certified_block().id()) and match_ordered_only
QC_GetBlock(t, q) ==
    /\ ~aborted
    /\ th[t].pc = "idle"
    /\ ncalls < MaxCalls
    /\ ncalls' = ncalls + 1
    /\ th' = [th EXCEPT ![t] =
                IF ~GetBlock(tree, q.cert)
                THEN Returned([Idle EXCEPT !.op = "qc", !.qc = q], "qc_err_no_block")
                ELSE IF ~q.matches
                THEN Returned([Idle EXCEPT !.op = "qc", !.qc = q], "qc_err_mismatch")
                ELSE [Idle EXCEPT !.op = "qc", !.qc = q, !.pc = "qc_save"]]
    /\ UNCHANGED <<tree, log, cbs, aborted, nhandoff, hist, now>>

\* self.storage.save_tree(vec![], vec![qc.clone()]), which can fail.
QC_Save(t) ==
    /\ ~aborted
    /\ th[t].pc = "qc_save"
    /\ \E ok \in BOOLEAN :
         IF ok
         THEN /\ log' = [log EXCEPT !.qcs = @ \cup {th[t].qc}]
              /\ hist' = [hist EXCEPT !.qcs = @ \cup {th[t].qc}]
              /\ th' = [th EXCEPT ![t] =
                          [@ EXCEPT !.pc = "qc_insert", !.eff = @ \cup {"save"}]]
         ELSE /\ th' = [th EXCEPT ![t] = Returned(@, "qc_err_save")]
              /\ hist' = [hist EXCEPT !.logfail = TRUE]
              /\ log' = log
    /\ UNCHANGED <<tree, cbs, aborted, ncalls, nhandoff, now>>

\* QC_Insert with the QC put into the index without the tree's own look-up of
\* the certified block.
QC_Insert_Unchecked(t) ==
    /\ ~aborted
    /\ th[t].pc = "qc_insert"
    /\ tree' = [tree EXCEPT !.qcs = @ \cup {th[t].qc}]
    /\ th' = [th EXCEPT ![t] = Returned([@ EXCEPT !.eff = @ \cup {"tree"}], "qc_ok")]
    /\ UNCHANGED <<log, cbs, aborted, ncalls, nhandoff, hist, now>>

\* self.inner.write().insert_quorum_cert(qc)
QC_Insert(t) ==
    /\ ~aborted
    /\ th[t].pc = "qc_insert"
    /\ LET r == InsertQuorumCert(tree, th[t].qc)
       IN  /\ tree' = r.tree
           /\ th' = [th EXCEPT ![t] =
                       Returned([@ EXCEPT !.eff = IF r.tree # tree
                                                  THEN @ \cup {"tree"} ELSE @],
                                IF r.ok THEN "qc_ok" ELSE "qc_err_insert")]
    /\ UNCHANGED <<log, cbs, aborted, ncalls, nhandoff, hist, now>>

InsertSingleQuorumCert(t) ==
    \/ \E q \in QcInputs : QC_GetBlock(t, q)
    \/ QC_Save(t)
    \/ QC_Insert(t)

\* ------------------------------------------ insert_timeout_certificate
\* CurTcRound with no TC taken as below every round (-1 for 0).
CurTcRound_NoneBelowZero(tr) == IF tr.htc = {} THEN -1 ELSE CHOOSE r \in tr.htc : TRUE

\* highest_timeout_cert().map_or(0, |tc| tc.round())
CurTcRound(tr) == IF tr.htc = {} THEN 0 ELSE CHOOSE r \in tr.htc : TRUE

\* TC_Read with < for <=: a TC of the current round goes on to the log.
TC_Read_OffByOne(t, r) ==
    /\ ~aborted
    /\ th[t].pc = "idle"
    /\ ncalls < MaxCalls
    /\ ncalls' = ncalls + 1
    /\ th' = [th EXCEPT ![t] =
                IF r < CurTcRound(tree)
                THEN Returned([Idle EXCEPT !.op = "tc", !.tc = r], "tc_ok_noop")
                ELSE [Idle EXCEPT !.op = "tc", !.tc = r, !.pc = "tc_save"]]
    /\ UNCHANGED <<tree, log, cbs, aborted, nhandoff, hist, now>>

\* if tc.round() <= cur_tc_round { return Ok(()) }
TC_Read(t, r) ==
    /\ ~aborted
    /\ th[t].pc = "idle"
    /\ ncalls < MaxCalls
    /\ ncalls' = ncalls + 1
    /\ th' = [th EXCEPT ![t] =
                IF r <= CurTcRound(tree)
                THEN Returned([Idle EXCEPT !.op = "tc", !.tc = r], "tc_ok_noop")
                ELSE [Idle EXCEPT !.op = "tc", !.tc = r, !.pc = "tc_save"]]
    /\ UNCHANGED <<tree, log, cbs, aborted, nhandoff, hist, now>>

\* TC_Save with the tree written before the log.
TC_Save_TreeFirst(t) ==
    /\ ~aborted
    /\ th[t].pc = "tc_save"
    /\ tree' = ReplaceTimeoutCert(tree, th[t].tc)
    /\ \E ok \in BOOLEAN :
         IF ok
         THEN /\ log' = [log EXCEPT !.tc = {th[t].tc}]
              /\ hist' = [hist EXCEPT !.tcs = @ \cup {th[t].tc}]
              /\ th' = [th EXCEPT ![t] =
                          [@ EXCEPT !.pc = "tc_replace", !.eff = @ \cup {"save"}]]
         ELSE /\ th' = [th EXCEPT ![t] = Returned(@, "tc_err_save")]
              /\ hist' = [hist EXCEPT !.logfail = TRUE]
              /\ log' = log
    /\ UNCHANGED <<cbs, aborted, ncalls, nhandoff, now>>

\* self.storage.save_highest_timeout_cert(tc), which can fail.
TC_Save(t) ==
    /\ ~aborted
    /\ th[t].pc = "tc_save"
    /\ \E ok \in BOOLEAN :
         IF ok
         THEN /\ log' = [log EXCEPT !.tc = {th[t].tc}]
              /\ hist' = [hist EXCEPT !.tcs = @ \cup {th[t].tc}]
              /\ th' = [th EXCEPT ![t] =
                          [@ EXCEPT !.pc = "tc_replace", !.eff = @ \cup {"save"}]]
         ELSE /\ th' = [th EXCEPT ![t] = Returned(@, "tc_err_save")]
              /\ hist' = [hist EXCEPT !.logfail = TRUE]
              /\ log' = log
    /\ UNCHANGED <<tree, cbs, aborted, ncalls, nhandoff, now>>

\* self.inner.write().replace_timeout_cert(tc)
TC_Replace(t) ==
    /\ ~aborted
    /\ th[t].pc = "tc_replace"
    /\ tree' = ReplaceTimeoutCert(tree, th[t].tc)
    /\ th' = [th EXCEPT ![t] = Returned([@ EXCEPT !.eff = @ \cup {"tree"}], "tc_ok")]
    /\ UNCHANGED <<log, cbs, aborted, ncalls, nhandoff, hist, now>>

InsertTimeoutCertificate(t) ==
    \/ \E r \in TcRounds : TC_Read(t, r)
    \/ TC_Save(t)
    \/ TC_Replace(t)

\* ------------------------------------------------------------- commit
\* A commit ends: inside try_commit its result is logged and the loop goes
\* on, otherwise it is returned to the caller.
CommitEnds(rec, res) ==
    IF rec.op \in {"rebuild", "new"}
    THEN [rec EXCEPT !.pc = "try_next", !.blk = NoBlock, !.path = << >>]
    ELSE Returned(rec, res)

\* CommitGetBlock without the look-up of the target: every commit goes on.
CommitGetBlock_NoLookup(rec, b) == [rec EXCEPT !.blk = b, !.pc = "cm_round"]

\* self.get_block(block_id_to_commit).ok_or_else(..)?
CommitGetBlock(rec, b) ==
    IF GetBlock(tree, b)
    THEN [rec EXCEPT !.blk = b, !.pc = "cm_round"]
    ELSE CommitEnds([rec EXCEPT !.blk = b], "cm_err_not_found")

\* commit(finality_proof) called on the store
CM_Call(t, b) ==
    /\ ~aborted
    /\ th[t].pc = "idle"
    /\ ncalls < MaxCalls
    /\ ncalls' = ncalls + 1
    /\ th' = [th EXCEPT ![t] = CommitGetBlock([Idle EXCEPT !.op = "commit"], b)]
    /\ UNCHANGED <<tree, log, cbs, aborted, nhandoff, hist, now>>

\* commit(qc.ledger_info()) called by try_commit
CM_GetBlock(t) ==
    /\ ~aborted
    /\ th[t].pc = "cm_get"
    /\ th' = [th EXCEPT ![t] = CommitGetBlock(@, th[t].blk)]
    /\ UNCHANGED <<tree, log, cbs, aborted, ncalls, nhandoff, hist, now>>

\* CM_RoundCheck with >= for >: a target of the ordered root's round passes.
CM_RoundCheck_OffByOne(t) ==
    /\ ~aborted
    /\ th[t].pc = "cm_round"
    /\ IF tree.ordered_root \notin tree.blocks
       THEN Panic
       ELSE /\ th' = [th EXCEPT ![t] =
                        IF RoundOf(th[t].blk) >= RoundOf(tree.ordered_root)
                        THEN [@ EXCEPT !.pc = "cm_path"]
                        ELSE CommitEnds(@, "cm_err_stale")]
            /\ UNCHANGED <<tree, log, cbs, aborted, ncalls, nhandoff, hist, now>>

\* ensure!(block_to_commit.round() > self.ordered_root().round(), ..)
CM_RoundCheck(t) ==
    /\ ~aborted
    /\ th[t].pc = "cm_round"
    /\ IF tree.ordered_root \notin tree.blocks
       THEN Panic
       ELSE /\ th' = [th EXCEPT ![t] =
                        IF RoundOf(th[t].blk) > RoundOf(tree.ordered_root)
                        THEN [@ EXCEPT !.pc = "cm_path"]
                        ELSE CommitEnds(@, "cm_err_stale")]
            /\ UNCHANGED <<tree, log, cbs, aborted, ncalls, nhandoff, hist, now>>

\* blocks_to_commit = path_from_ordered_root(..).unwrap_or_else(Vec::new);
\* assert!(!blocks_to_commit.is_empty())
CM_Path(t) ==
    /\ ~aborted
    /\ th[t].pc = "cm_path"
    /\ IF \/ tree.ordered_root \notin tree.blocks
          \/ PathFromOrderedRoot(tree, th[t].blk) = << >>
       THEN Panic
       ELSE /\ th' = [th EXCEPT ![t] =
                        [@ EXCEPT !.pc = "cm_root",
                                  !.path = PathFromOrderedRoot(tree, th[t].blk)]]
            /\ UNCHANGED <<tree, log, cbs, aborted, ncalls, nhandoff, hist, now>>

\* self.inner.write().update_ordered_root_id(block_to_commit.id())
CM_UpdateOrderedRoot(t) ==
    /\ ~aborted
    /\ th[t].pc = "cm_root"
    /\ tree' = UpdateOrderedRootId(tree, th[t].blk)
    /\ th' = [th EXCEPT ![t] =
                [@ EXCEPT !.pc = "cm_exec",
                          !.eff = @ \cup {"ordered_root"}
                                    \cup (IF tree' # tree THEN {"tree"} ELSE {})]]
    /\ hist' = [hist EXCEPT !.handed = @ \cup Range(th[t].path)]
    /\ UNCHANGED <<log, cbs, aborted, ncalls, nhandoff, now>>

\* CM_Handoff with the executor's error returned to the caller in place of the
\* expect: the process goes on.
CM_Handoff_ErrorReturned(t) ==
    /\ ~aborted
    /\ th[t].pc = "cm_exec"
    /\ \E ok \in BOOLEAN :
         IF ok
         THEN /\ cbs' = cbs \cup { [id |-> nhandoff + 1, target |-> th[t].blk,
                                    batch |-> th[t].path, pc |-> "cb_li",
                                    ids |-> << >>, logok |-> TRUE] }
              /\ nhandoff' = nhandoff + 1
              /\ th' = [th EXCEPT ![t] =
                          [@ EXCEPT !.pc = "cm_await", !.eff = @ \cup {"executor"}]]
              /\ UNCHANGED <<tree, log, aborted, ncalls, hist, now>>
         ELSE /\ th' = [th EXCEPT ![t] = CommitEnds(@, "cm_err_exec")]
              /\ UNCHANGED <<tree, log, cbs, aborted, ncalls, nhandoff, hist, now>>

\* self.state_computer.commit(&blocks_to_commit, finality_proof, callback):
\* the executor takes the batch and the callback, or fails: the expect
\* ("Failed to persist commit") panics in this thread and the process aborts.
CM_Handoff(t) ==
    /\ ~aborted
    /\ th[t].pc = "cm_exec"
    /\ \E ok \in BOOLEAN :
         IF ok
         THEN /\ cbs' = cbs \cup { [id |-> nhandoff + 1, target |-> th[t].blk,
                                    batch |-> th[t].path, pc |-> "cb_li",
                                    ids |-> << >>, logok |-> TRUE] }
              /\ nhandoff' = nhandoff + 1
              /\ th' = [th EXCEPT ![t] =
                          [@ EXCEPT !.pc = "cm_await", !.eff = @ \cup {"executor"}]]
              /\ UNCHANGED <<tree, log, aborted, ncalls, hist, now>>
         ELSE /\ aborted' = TRUE
              /\ th' = [th EXCEPT ![t] =
                          [@ EXCEPT !.pc = "cm_panic", !.eff = @ \cup {"executor"}]]
              /\ UNCHANGED <<tree, log, cbs, ncalls, nhandoff, hist, now>>

\* .await on the executor's future: it resolves, the commit returns Ok.
CM_Resolve(t) ==
    /\ ~aborted
    /\ th[t].pc = "cm_await"
    /\ th' = [th EXCEPT ![t] = CommitEnds(@, "cm_ok")]
    /\ UNCHANGED <<tree, log, cbs, aborted, ncalls, nhandoff, hist, now>>

Commit(t) ==
    \/ \E b \in Delivered : CM_Call(t, b)
    \/ CM_GetBlock(t)
    \/ CM_RoundCheck(t)
    \/ CM_Path(t)
    \/ CM_UpdateOrderedRoot(t)
    \/ CM_Handoff(t)
    \/ CM_Resolve(t)

\* ------------------------------------------------ the commit callback
\* block_tree.write().update_highest_ledger_info(commit_decision)
CB_UpdateLedgerInfo(c) ==
    /\ ~aborted
    /\ c.pc = "cb_li"
    /\ tree' = UpdateHighestLedgerInfo(tree, c.target)
    /\ cbs' = (cbs \ {c}) \cup {[c EXCEPT !.pc = "cb_find"]}
    /\ UNCHANGED <<log, th, aborted, ncalls, nhandoff, hist, now>>

\* CB_FindAndPruneLog with the error of prune_tree returned: the callback
\* ends there and the tree keeps its commit root and its blocks.
CB_FindAndPruneLog_FailureReturns(c) ==
    /\ ~aborted
    /\ c.pc = "cb_find"
    /\ IF tree.commit_root \notin tree.blocks
       THEN Panic
       ELSE LET ids == FindBlocksToPrune(tree, c.target)
            IN  /\ \E ok \in BOOLEAN :
                     /\ log' = IF ok
                               THEN [log EXCEPT
                                       !.blocks = @ \ Range(ids),
                                       !.qcs = {q \in @ : q.cert \notin Range(ids)}]
                               ELSE log
                     /\ hist' = IF ok THEN hist
                                ELSE [hist EXCEPT !.logfail = TRUE]
                     /\ cbs' = IF ok
                               THEN (cbs \ {c}) \cup
                                    {[c EXCEPT !.pc = "cb_update", !.ids = ids,
                                               !.logok = ok]}
                               ELSE cbs \ {c}
                /\ UNCHANGED <<tree, th, aborted, ncalls, nhandoff, now>>

\* CB_FindAndPruneLog with the tree pruned and the commit root advanced at
\* once, before the log is pruned.
CB_FindAndPruneLog_TreeFirst(c) ==
    /\ ~aborted
    /\ c.pc = "cb_find"
    /\ IF tree.commit_root \notin tree.blocks
       THEN Panic
       ELSE LET ids == FindBlocksToPrune(tree, c.target)
            IN  /\ tree' = UpdateCommitIdAndProcessPrunedBlocks(tree, c.target, ids)
                /\ cbs' = (cbs \ {c}) \cup
                          {[c EXCEPT !.pc = "cb_update", !.ids = ids]}
                /\ UNCHANGED <<log, th, aborted, ncalls, nhandoff, hist, now>>

\* block_tree.read().find_blocks_to_prune(block_to_commit.id()), then
\* storage.prune_tree(id_to_remove), whose failure is logged and ignored.
\* (One step: the read of the tree and the call on the log commute with
\* every step of another thread that could come between them.)
CB_FindAndPruneLog(c) ==
    /\ ~aborted
    /\ c.pc = "cb_find"
    /\ IF tree.commit_root \notin tree.blocks
       THEN Panic
       ELSE LET ids == FindBlocksToPrune(tree, c.target)
            IN  /\ \E ok \in BOOLEAN :
                     /\ log' = IF ok
                               THEN [log EXCEPT
                                       !.blocks = @ \ Range(ids),
                                       !.qcs = {q \in @ : q.cert \notin Range(ids)}]
                               ELSE log
                     /\ hist' = IF ok THEN hist
                                ELSE [hist EXCEPT !.logfail = TRUE]
                     /\ cbs' = (cbs \ {c}) \cup
                               {[c EXCEPT !.pc = "cb_update", !.ids = ids,
                                          !.logok = ok]}
                /\ UNCHANGED <<tree, th, aborted, ncalls, nhandoff, now>>

\* CB_UpdateCommit with the list of pruned ids dropped: the commit root
\* advances and nothing is removed.
CB_UpdateCommit_NothingRemoved(c) ==
    /\ ~aborted
    /\ c.pc = "cb_update"
    /\ tree' = UpdateCommitIdAndProcessPrunedBlocks(tree, c.target, << >>)
    /\ cbs' = cbs \ {c}
    /\ UNCHANGED <<log, th, aborted, ncalls, nhandoff, hist, now>>

\* block_tree.write().update_commit_id_and_process_pruned_blocks(..)
CB_UpdateCommit(c) ==
    /\ ~aborted
    /\ c.pc = "cb_update"
    /\ tree' = UpdateCommitIdAndProcessPrunedBlocks(tree, c.target, c.ids)
    /\ cbs' = cbs \ {c}
    /\ UNCHANGED <<log, th, aborted, ncalls, nhandoff, hist, now>>

\* update_counters_and_prune_blocks, run by the executor in its own context
CommitCallback ==
    \E c \in cbs :
        \/ CB_UpdateLedgerInfo(c)
        \/ CB_FindAndPruneLog(c)
        \/ CB_UpdateCommit(c)

\* ------------------------------------------------------------- rebuild
\* What state sync hands to rebuild: the new root, the blocks and the QCs.
\* The last three cannot be built: a block of an old round, a block listed
\* before its parent, a QC for a block that is not among the blocks.
RebuildInputs ==
    { [root |-> "B2", blocks |-> << >>, qcs |-> << >>],
      [root |-> "G", blocks |-> <<"B1", "B2">>,
       qcs |-> <<QuorumCert("B2", "B1", TRUE)>>],
      [root |-> "B2", blocks |-> <<"B1">>, qcs |-> << >>],
      [root |-> "G", blocks |-> <<"B2", "B1">>, qcs |-> << >>],
      [root |-> "G", blocks |-> <<"B1">>,
       qcs |-> <<QuorumCert("B2", "B1", TRUE)>>] }

\* PrevHtc with the timeout certificate dropped.
PrevHtc_None(tr) == {}

\* let prev_htc = self.highest_timeout_cert().map(|tc| tc.as_ref().clone())
PrevHtc(tr) == tr.htc

\* The previous highest TC is read and Self::build makes the new store: every
\* block goes through execute_and_insert_block and every QC through
\* insert_single_quorum_cert of the new store (executor, save_tree, tree);
\* a failure of any of them panics.
RB_Build(t, inp) ==
    /\ ~aborted
    /\ th[t].pc = "idle"
    /\ ncalls < MaxCalls
    /\ now >= TimeReached(Range(inp.blocks))
    /\ LET new == Build(inp.root, inp.blocks, inp.qcs, PrevHtc(tree))
           call == [root |-> inp.root, blocks |-> inp.blocks, qcs |-> inp.qcs,
                    calls |-> ncalls + 1,
                    quiet |-> \A u \in Threads : th[u].pc = "idle"]
           rec == [Idle EXCEPT !.op = "rebuild", !.inp = <<call>>]
       IN  /\ ncalls' = ncalls + 1
           /\ \E ok \in BOOLEAN :
                 IF ok /\ new.ok
                 THEN /\ log' = [log EXCEPT !.blocks = @ \cup Range(inp.blocks),
                                            !.qcs = @ \cup Range(inp.qcs)]
                      /\ hist' = [hist EXCEPT !.blocks = @ \cup Range(inp.blocks),
                                              !.qcs = @ \cup Range(inp.qcs),
                                              !.roots = @ \cup {inp.root},
                                              !.rebuilds = @ + 1]
                      /\ th' = [th EXCEPT ![t] =
                                  [rec EXCEPT !.pc = "rb_ids",
                                              !.newtree = <<new.tree>>]]
                      /\ UNCHANGED <<tree, cbs, aborted, nhandoff, now>>
                 ELSE /\ aborted' = TRUE
                      /\ th' = [th EXCEPT ![t] = [rec EXCEPT !.pc = "rb_panic"]]
                      /\ UNCHANGED <<tree, log, cbs, nhandoff, hist, now>>

\* to_remove = self.inner.read().get_all_block_id()
RB_ReadIds(t) ==
    /\ ~aborted
    /\ th[t].pc = "rb_ids"
    /\ th' = [th EXCEPT ![t] = [@ EXCEPT !.pc = "rb_prune", !.ids = tree.blocks]]
    /\ UNCHANGED <<tree, log, cbs, aborted, ncalls, nhandoff, hist, now>>

\* self.storage.prune_tree(to_remove): a failure is logged and ignored.
RB_PruneLog(t) ==
    /\ ~aborted
    /\ th[t].pc = "rb_prune"
    /\ \E ok \in BOOLEAN :
         /\ log' = IF ok
                THEN [log EXCEPT !.blocks = @ \ th[t].ids,
                                 !.qcs = {q \in @ : q.cert \notin th[t].ids}]
                ELSE log
         /\ hist' = IF ok THEN hist ELSE [hist EXCEPT !.logfail = TRUE]
    /\ th' = [th EXCEPT ![t] = [@ EXCEPT !.pc = "rb_swap", !.ids = {}]]
    /\ UNCHANGED <<tree, cbs, aborted, ncalls, nhandoff, now>>

\* *self.inner.write() = Arc::try_unwrap(inner)..into_inner()
RB_Swap(t) ==
    /\ ~aborted
    /\ th[t].pc = "rb_swap"
    /\ tree' = th[t].newtree[1]
    /\ th' = [th EXCEPT ![t] = [@ EXCEPT !.pc = "try_certs", !.newtree = << >>]]
    /\ UNCHANGED <<log, cbs, aborted, ncalls, nhandoff, hist, now>>

\* ------------------------------------------------------------- try_commit
\* The QCs of `s` sorted ascending by commit_info().round().
RECURSIVE SortByCommitRound(_)
SortByCommitRound(s) ==
    IF s = {} THEN << >>
    ELSE LET low == CHOOSE x \in s : \A y \in s : CommitRound(x) <= CommitRound(y)
         IN  <<low>> \o SortByCommitRound(s \ {low})

\* BlockTree::get_all_quorum_certs_with_commit_info
GetAllQuorumCertsWithCommitInfo(tr) == { q \in tr.qcs : CommitRound(q) > 0 }

\* TRY_Certs with the certificates sorted descending by commit round.
TRY_Certs_Descending(t) ==
    /\ ~aborted
    /\ th[t].pc = "try_certs"
    /\ LET up == SortByCommitRound(GetAllQuorumCertsWithCommitInfo(tree))
       IN  th' = [th EXCEPT ![t] =
                    [@ EXCEPT !.pc = "try_next",
                              !.certs = [i \in 1..Len(up) |-> up[Len(up) + 1 - i]]]]
    /\ UNCHANGED <<tree, log, cbs, aborted, ncalls, nhandoff, hist, now>>

\* certs = self.inner.read().get_all_quorum_certs_with_commit_info();
\* certs.sort_unstable_by_key(|qc| qc.commit_info().round())
TRY_Certs(t) ==
    /\ ~aborted
    /\ th[t].pc = "try_certs"
    /\ th' = [th EXCEPT ![t] =
                [@ EXCEPT !.pc = "try_next",
                          !.certs = SortByCommitRound(
                                      GetAllQuorumCertsWithCommitInfo(tree))]]
    /\ UNCHANGED <<tree, log, cbs, aborted, ncalls, nhandoff, hist, now>>

\* for qc in certs { if qc.commit_info().round() > self.commit_root().round()
\* { self.commit(qc.ledger_info().clone()).await .. } }
TRY_Next(t) ==
    /\ ~aborted
    /\ th[t].pc = "try_next"
    /\ IF th[t].certs = << >>
       THEN /\ th' = [th EXCEPT ![t] =
                        Returned(@, IF th[t].op = "new" THEN "new_ok" ELSE "rb_ok")]
            /\ UNCHANGED <<tree, log, cbs, aborted, ncalls, nhandoff, hist, now>>
       ELSE IF tree.commit_root \notin tree.blocks
       THEN Panic
       ELSE /\ th' = [th EXCEPT ![t] =
                        IF CommitRound(Head(th[t].certs)) > RoundOf(tree.commit_root)
                        THEN [@ EXCEPT !.pc = "cm_get",
                                       !.blk = Head(th[t].certs).commit,
                                       !.certs = Tail(@)]
                        ELSE [@ EXCEPT !.certs = Tail(@)]]
            /\ UNCHANGED <<tree, log, cbs, aborted, ncalls, nhandoff, hist, now>>

Rebuild(t) ==
    \/ \E inp \in RebuildInputs : RB_Build(t, inp)
    \/ RB_ReadIds(t)
    \/ RB_PruneLog(t)
    \/ RB_Swap(t)
    \/ TRY_Certs(t)
    \/ TRY_Next(t)

\* The local clock, monotonic, moves on.
Tick ==
    /\ ~aborted
    /\ now < MaxTime
    /\ now' = now + 1
    /\ UNCHANGED <<tree, log, th, cbs, aborted, ncalls, nhandoff, hist>>

Next ==
    \/ Tick
    \/ \E t \in Threads :
        /\ th[t].pc = "idle" => Constructed
        /\ \/ ExecuteAndInsertBlock(t)
           \/ InsertSingleQuorumCert(t)
           \/ InsertTimeoutCertificate(t)
           \/ Commit(t)
           \/ Rebuild(t)
    \/ CommitCallback

Spec == Init /\ [][Next]_vars

\* The executor runs the callbacks it holds and resolves its futures, and a
\* thread inside commit goes on: no step of a callback or of a commit waits
\* for ever.
LiveSpec ==
    /\ Spec
    /\ WF_vars(CommitCallback)
    /\ WF_vars(\E t \in Threads : th[t].pc # "idle" /\ Commit(t))

\* ------------------------------------------------------------- claims
\* Whether `a` is `b` or an ancestor of `b` by parent links.
RECURSIVE IsAncestorOrEqual(_, _)
IsAncestorOrEqual(a, b) ==
    IF b = a THEN TRUE
    ELSE IF b = NoBlock THEN FALSE
    ELSE IsAncestorOrEqual(a, ParentOf(b))

\* C1: on a store that is not rebuilt (only execute_and_insert_block,
\* insert_single_quorum_cert, insert_timeout_certificate and commit calls,
\* with the callbacks run in any order), the round of commit_root never
\* decreases from one state to the next.
C1_CommitRootRoundNeverDecreases ==
    [][hist'.rebuilds = 0 =>
         RoundOf(tree'.commit_root) >= RoundOf(tree.commit_root)]_vars

\* C2: on a store that is not rebuilt, the round of ordered_root never
\* decreases from one state to the next, overlapping commit calls included.
C2_OrderedRootRoundNeverDecreases ==
    [][hist'.rebuilds = 0 =>
         RoundOf(tree'.ordered_root) >= RoundOf(tree.ordered_root)]_vars

\* C3: in every reachable state commit_root.round <= ordered_root.round <=
\* highest_certified_block.round.
C3_RootRoundsOrdered ==
    /\ RoundOf(tree.commit_root) <= RoundOf(tree.ordered_root)
    /\ RoundOf(tree.ordered_root) <= RoundOf(tree.hcb)

\* C4: in every reachable state of a store that is not rebuilt, commit_root
\* is ordered_root or an ancestor of it by parent links.
C4_CommitRootAncestorOfOrderedRoot ==
    hist.rebuilds = 0 => IsAncestorOrEqual(tree.commit_root, tree.ordered_root)

\* C5: in every reachable state commit_root_id and ordered_root_id name
\* blocks that are present in the blocks map of the tree.
C5_RootsPresent ==
    /\ tree.commit_root \in tree.blocks
    /\ tree.ordered_root \in tree.blocks

\* C6: in every reachable state of a store that is not rebuilt, every block
\* of the tree other than the commit root has its parent present in the tree
\* (the blocks that remain after a prune form a connected subtree rooted at
\* the commit root).
C6_ParentsPresent ==
    hist.rebuilds = 0 =>
        \A b \in tree.blocks \ {tree.commit_root} : ParentOf(b) \in tree.blocks

\* C7: in every reachable state the tree holds, apart from the roots
\* supplied at construction and rebuild and their certificates, only blocks
\* and QCs that a save_tree call has accepted, and only a timeout certificate
\* that a save_highest_timeout_cert call has accepted.
C7_TreeHoldsOnlyPersisted ==
    /\ tree.blocks \subseteq (hist.roots \cup hist.blocks)
    /\ \A q \in tree.qcs : q \in hist.qcs \/ \E r \in hist.roots : q = RootCert(r)
    /\ tree.htc \subseteq hist.tcs

\* A block and a QC have been inserted through the store and are in the tree.
C7_Witness ==
    \E t, u \in Threads :
        /\ th[t].res = "ei_ok" /\ th[t].blk \in tree.blocks
        /\ th[u].res = "qc_ok" /\ tree.qcs \cap QcInputs # {}

\* C8: a step of execute_and_insert_block in which save_tree fails returns
\* the error, and neither it nor an earlier step of the call has changed the
\* tree (blocks, QCs, both roots, every highest_* value).
C8_SaveFailureLeavesTree ==
    [][\A t \in Threads :
         (th[t].pc = "ei_save" /\ th'[t].pc = "idle")
         => /\ th'[t].res = "ei_err_save"
            /\ tree' = tree
            /\ "tree" \notin th[t].eff]_vars

\* save_tree has failed for a block, which is not in the tree.
C8_Witness ==
    \E t \in Threads : th[t].res = "ei_err_save" /\ th[t].blk \notin tree.blocks

\* Thread t calls execute_and_insert_block(b) in this step.
InsertCalled(t, b) ==
    /\ ncalls' = ncalls + 1
    /\ th[t].pc = "idle"
    /\ \A u \in Threads \ {t} : th'[u] = th[u]
    /\ th'[t].blk = b
    /\ \/ th'[t].pc = "ei_round"
       \/ th'[t].pc = "idle" /\ th'[t].res = "ei_ok_existing"

\* C9: a successful execute_and_insert_block(b) leaves b in the tree, and a
\* call of execute_and_insert_block(b) with b in the tree returns Ok with the
\* block of the tree in that one step: no executor compute, no save_tree, no
\* change of the tree.
C9_DuplicateInsert ==
    [][\A t \in Threads :
         /\ (th[t].pc = "ei_insert" /\ th'[t].res = "ei_ok")
            => th[t].blk \in tree'.blocks
         /\ \A b \in Blocks :
              (InsertCalled(t, b) /\ b \in tree.blocks)
              => /\ th'[t].pc = "idle"
                 /\ th'[t].res = "ei_ok_existing"
                 /\ UNCHANGED <<tree, log, hist>>]_vars

\* One thread has inserted a block, the other has inserted it again.
C9_Witness ==
    \E t, u \in Threads :
        /\ th[t].res = "ei_ok"
        /\ th[u].res = "ei_ok_existing"
        /\ th[u].blk = th[t].blk
        /\ th[t].blk \in tree.blocks

\* C10: the round check of execute_and_insert_block, reached for a block
\* that get_block did not find, with block.round <= ordered_root.round
\* returns "Block with old round": the call has made no executor or log
\* call, and the tree and the log are unchanged.
C10_OldRoundRejected ==
    [][\A t \in Threads :
         (/\ th[t].pc = "ei_round"
          /\ th'[t] # th[t]
          /\ tree.ordered_root \in tree.blocks
          /\ RoundOf(th[t].blk) <= RoundOf(tree.ordered_root))
         => /\ th'[t].pc = "idle"
            /\ th'[t].res = "ei_err_old_round"
            /\ th[t].eff = {}
            /\ UNCHANGED <<tree, log, hist>>]_vars

\* A block of the ordered root's round, not in the tree, has been rejected.
C10_Witness ==
    \E t \in Threads :
        /\ th[t].res = "ei_err_old_round"
        /\ th[t].blk \notin tree.blocks
        /\ tree.ordered_root \in tree.blocks
        /\ RoundOf(th[t].blk) = RoundOf(tree.ordered_root)
        /\ RoundOf(tree.ordered_root) > 0

\* Thread t calls commit with a finality proof naming b in this step.
CommitCalled(t, b) ==
    /\ ncalls' = ncalls + 1
    /\ th[t].pc = "idle"
    /\ \A u \in Threads \ {t} : th'[u] = th[u]
    /\ th'[t].blk = b
    /\ \/ th'[t].pc = "cm_round"
       \/ th'[t].pc = "idle" /\ th'[t].res = "cm_err_not_found"

\* C11: commit with a finality proof whose block is not in the tree returns
\* the error "Committed block id not found" at once (inside try_commit the
\* loop goes on to the next QC): the tree with both roots and its blocks, the
\* log and the set of callbacks held by the executor are unchanged, and no
\* commit has been handed to the executor.
C11_CommitTargetMissing ==
    [][\A t \in Threads :
         /\ \A b \in Blocks :
              (CommitCalled(t, b) /\ b \notin tree.blocks)
              => /\ th'[t].pc = "idle"
                 /\ th'[t].res = "cm_err_not_found"
                 /\ UNCHANGED <<tree, log, cbs, nhandoff, aborted>>
         /\ (th[t].pc = "cm_get" /\ th'[t] # th[t] /\ th[t].blk \notin tree.blocks)
            => /\ th'[t].pc = "try_next"
               /\ UNCHANGED <<tree, log, cbs, nhandoff, aborted>>]_vars

\* A commit naming a block that is not in the tree has returned the error.
C11_Witness ==
    \E t \in Threads :
        /\ th[t].res = "cm_err_not_found"
        /\ th[t].blk \notin tree.blocks
        /\ th[t].blk \in Blocks
        /\ nhandoff = 0
        /\ ~aborted

\* C12: the round check of commit, for a target of a round <= the round of
\* the ordered root, returns "Committed block round lower than root": the
\* call has written nothing and has not called the executor, both roots, the
\* blocks and the log are unchanged and no callback is registered.
C12_CommitStale ==
    [][\A t \in Threads :
         (/\ th[t].pc = "cm_round"
          /\ th'[t] # th[t]
          /\ tree.ordered_root \in tree.blocks
          /\ RoundOf(th[t].blk) <= RoundOf(tree.ordered_root))
         => /\ IF th[t].op # "commit"
               THEN th'[t].pc = "try_next"
               ELSE th'[t].pc = "idle" /\ th'[t].res = "cm_err_stale"
            /\ th[t].eff \cap {"ordered_root", "executor", "tree"} = {}
            /\ UNCHANGED <<tree, log, cbs, nhandoff, aborted>>]_vars

\* A commit naming the ordered root itself, after the root has advanced to a
\* round above 0, has been rejected as stale.
C12_Witness ==
    \E t \in Threads :
        /\ th[t].res = "cm_err_stale"
        /\ th[t].blk = tree.ordered_root
        /\ th[t].blk \in tree.blocks
        /\ RoundOf(tree.ordered_root) > 0
        /\ ~aborted

\* C13: on a store that is not rebuilt, whenever a commit is about to compute
\* blocks_to_commit (it has passed the round check), its target is in the
\* tree and the target's round is above the ordered root's, the list
\* path_from_ordered_root(target) is nonempty, so the assertion holds.
C13_PathNonempty ==
    hist.rebuilds = 0 =>
        \A t \in Threads :
            (/\ th[t].pc = "cm_path"
             /\ tree.ordered_root \in tree.blocks
             /\ th[t].blk \in tree.blocks
             /\ RoundOf(th[t].blk) > RoundOf(tree.ordered_root))
            => PathFromOrderedRoot(tree, th[t].blk) # << >>

\* The positions of a commit before its hand-off to the executor.
CommitPcs == {"cm_get", "cm_round", "cm_path", "cm_root", "cm_exec"}

\* Callback c makes its last step, and its commit is the only one: no other
\* commit has been handed to the executor, none is on its way, and the store
\* has not been rebuilt.
OnlyCommitCompletes(c) ==
    /\ c.pc = "cb_update"
    /\ cbs = {c}
    /\ cbs' = {}
    /\ nhandoff = 1
    /\ hist.rebuilds = 0
    /\ \A t \in Threads : th[t].pc \notin CommitPcs

\* The previous commit root and the blocks between it and the target.
CommittedChain(root, target) ==
    { b \in Blocks : /\ b # target
                     /\ IsAncestorOrEqual(root, b)
                     /\ IsAncestorOrEqual(b, target) }

\* C14: when the callback of commit(target) completes with no other commit in
\* flight, ordered_root = commit_root = target, the target and its
\* descendants that were in the tree are still there, the previous commit
\* root and the blocks between it and the target are out of the tree and
\* were among the ids handed to pruned_block_ids, whose most recent ones (as
\* many as max_pruned_blocks_in_mem) the FIFO holds.
C14_CommitAdvancesAndPrunes ==
    [][\A c \in cbs :
         OnlyCommitCompletes(c)
         => /\ tree'.ordered_root = c.target
            /\ tree'.commit_root = c.target
            /\ \A b \in tree.blocks :
                 IsAncestorOrEqual(c.target, b) => b \in tree'.blocks
            /\ CommittedChain(tree.commit_root, c.target) # {}
            /\ CommittedChain(tree.commit_root, c.target) \cap tree'.blocks = {}
            /\ CommittedChain(tree.commit_root, c.target) \subseteq Range(c.ids)
            /\ Range(LastN(c.ids, MaxPrunedBlocksInMem)) \subseteq Range(tree'.pruned)]_vars

\* commit(B1) and its callback have completed on G -> B1 -> B2: both roots
\* are B1, B2 is present, genesis is out of the tree and in pruned_block_ids.
C14_Witness ==
    /\ nhandoff = 1
    /\ cbs = {}
    /\ hist.rebuilds = 0
    /\ \E t \in Threads : th[t].res = "cm_ok" /\ th[t].blk = "B1"
    /\ tree.ordered_root = "B1"
    /\ tree.commit_root = "B1"
    /\ "B2" \in tree.blocks
    /\ "G" \notin tree.blocks
    /\ "G" \in Range(tree.pruned)

\* C15: on a store that is not rebuilt, when the callback of a commit makes
\* its last step (the commit completes), every block that is in the tree
\* while the callback runs and is neither the target nor a descendant of it
\* is removed from the tree: get_block returns None for it afterwards.
C15_NonDescendantsRemoved ==
    [][\A c \in cbs :
         (c.pc = "cb_update" /\ cbs' = cbs \ {c} /\ hist.rebuilds = 0)
         => \A b \in tree.blocks :
              ~IsAncestorOrEqual(c.target, b) => ~GetBlock(tree', b)]_vars

\* C16: a failure of the log's prune_tree in the callback is ignored: the
\* callback goes on with the list find_blocks_to_prune gave it, its last step
\* sets commit_root_id to the target and removes the ids of the list from
\* the tree without aborting, and the commit returns Ok when the executor's
\* future resolves.
C16_LogPruneFailureIgnored ==
    [][/\ \A c \in cbs :
            (c.pc = "cb_find" /\ c \notin cbs')
            => \E d \in cbs' :
                 /\ d.id = c.id /\ d.target = c.target
                 /\ d.pc = "cb_update"
                 /\ d.ids = FindBlocksToPrune(tree, c.target)
                 /\ ~d.logok => log' = log
                 /\ tree' = tree
       /\ \A c \in cbs :
            (c.pc = "cb_update" /\ ~c.logok /\ c \notin cbs')
            => /\ tree'.commit_root = c.target
               /\ tree'.blocks = tree.blocks \ Range(c.ids)
               /\ ~aborted'
       /\ \A t \in Threads :
            (th[t].pc = "cm_await" /\ th'[t] # th[t])
            => IF th[t].op # "commit"
               THEN th'[t].pc = "try_next"
               ELSE th'[t].pc = "idle" /\ th'[t].res = "cm_ok"]_vars

\* commit(B2) on G -> B1 -> B2 has returned Ok and its callback has completed
\* although prune_tree failed: B1 is out of the tree and still in the log.
C16_Witness ==
    /\ nhandoff = 1
    /\ cbs = {}
    /\ hist.rebuilds = 0
    /\ \E t \in Threads : th[t].res = "cm_ok" /\ th[t].blk = "B2"
    /\ tree.commit_root = "B2"
    /\ "B1" \notin tree.blocks
    /\ "B1" \in log.blocks

\* C17: the call of the executor's commit either takes the batch and the
\* callback, or fails, and then the process aborts with the thread inside
\* commit: the call has returned neither Ok nor Err, it has already written
\* the ordered root, and no callback of it is registered, so it never
\* advances commit_root; where this commit is the only call made on the
\* store, ordered_root is the target and commit_root is not.
C17_ExecutorFailureAborts ==
    [][\A t \in Threads :
         (th[t].pc = "cm_exec" /\ th'[t] # th[t])
         => \/ /\ th'[t].pc = "cm_await"
               /\ nhandoff' = nhandoff + 1
               /\ ~aborted'
            \/ /\ th'[t].pc = "cm_panic"
               /\ aborted'
               /\ th'[t].res = "none"
               /\ "ordered_root" \in th[t].eff
               /\ UNCHANGED <<tree, log, cbs, nhandoff>>
               /\ ncalls = 1 => /\ tree.ordered_root = th[t].blk
                                /\ tree.commit_root # th[t].blk]_vars

\* The executor has failed a commit: the process has aborted inside the
\* call, with the ordered root at the target and the commit root behind it.
C17_Witness ==
    \E t \in Threads :
        /\ th[t].pc = "cm_panic"
        /\ th[t].res = "none"
        /\ aborted
        /\ tree.ordered_root = th[t].blk
        /\ RoundOf(tree.commit_root) < RoundOf(th[t].blk)
        /\ \A c \in cbs : c.target # th[t].blk

\* Thread t calls insert_single_quorum_cert(q) in this step.
QcCalled(t, q) ==
    /\ ncalls' = ncalls + 1
    /\ th[t].pc = "idle"
    /\ \A u \in Threads \ {t} : th'[u] = th[u]
    /\ th'[t].qc = q
    /\ \/ th'[t].pc = "qc_save"
       \/ th'[t].pc = "idle" /\ th'[t].res \in {"qc_err_no_block", "qc_err_mismatch"}

\* C18: insert_single_quorum_cert called with a QC whose certified block is
\* not in the tree returns the error "Insert .. without having the block in
\* store first" at once: the QC is not written to the log and the tree is
\* unchanged.
C18_QcBlockMissing ==
    [][\A t \in Threads : \A q \in QcInputs :
         (QcCalled(t, q) /\ ~GetBlock(tree, q.cert))
         => /\ th'[t].pc = "idle"
            /\ th'[t].res = "qc_err_no_block"
            /\ UNCHANGED <<tree, log, hist>>]_vars

\* A QC has been refused for its missing block: it is in neither the tree
\* nor the log.
C18_Witness ==
    \E t \in Threads :
        /\ th[t].res = "qc_err_no_block"
        /\ th[t].qc \in QcInputs
        /\ th[t].qc.cert \notin tree.blocks
        /\ th[t].qc \notin tree.qcs
        /\ th[t].qc \notin log.qcs

\* C19: insert_single_quorum_cert called with a QC whose certified block is
\* in the tree and whose certified block info does not match the stored
\* block's in the ordered-only fields returns the error "QC for block .. has
\* different .." at once: the QC is not written to the log and the tree is
\* unchanged.
C19_QcInconsistent ==
    [][\A t \in Threads : \A q \in QcInputs :
         (QcCalled(t, q) /\ GetBlock(tree, q.cert) /\ ~q.matches)
         => /\ th'[t].pc = "idle"
            /\ th'[t].res = "qc_err_mismatch"
            /\ UNCHANGED <<tree, log, hist>>]_vars

\* A QC has been refused for its mismatch with the stored block, which is in
\* the tree: the QC is in neither the tree nor the log.
C19_Witness ==
    \E t \in Threads :
        /\ th[t].res = "qc_err_mismatch"
        /\ th[t].qc \in QcInputs
        /\ ~th[t].qc.matches
        /\ th[t].qc.cert \in tree.blocks
        /\ th[t].qc \notin tree.qcs
        /\ th[t].qc \notin log.qcs

\* C20: every step of an insert_single_quorum_cert(q) that finds q installed
\* by an earlier call (q in the QC index of the tree and in the log) leaves
\* the tree, with its QC index and every highest_* certificate, and the QC
\* set of the log as they are: the call passes the look-up, writes q to the
\* log again, which adds nothing, and insert_quorum_cert changes nothing and
\* returns Ok.  (Only a failure of that second save_tree makes the call
\* return an error, the tree and the log still unchanged.)
C20_DuplicateQcIsNoOp ==
    [][\A t \in Threads : \A q \in QcInputs :
         (q \in tree.qcs /\ q \in log.qcs)
         => /\ QcCalled(t, q)
               => th'[t].pc = "qc_save" /\ UNCHANGED <<tree, log, hist>>
            /\ (th[t].pc = "qc_save" /\ th[t].qc = q /\ th'[t] # th[t])
               => /\ \/ th'[t].pc = "qc_insert"
                     \/ th'[t].pc = "idle" /\ th'[t].res = "qc_err_save"
                  /\ tree' = tree
                  /\ log' = log
            /\ (th[t].pc = "qc_insert" /\ th[t].qc = q /\ th'[t] # th[t])
               => /\ th'[t].pc = "idle"
                  /\ th'[t].res = "qc_ok"
                  /\ tree' = tree
                  /\ log' = log]_vars

\* insert_single_quorum_cert(q) has returned Ok twice for one q, which is in
\* the tree and in the log: the later insert_quorum_cert found q installed.
C20_Witness ==
    \E q \in QcInputs :
        /\ \A t \in Threads : th[t].res = "qc_ok" /\ th[t].qc = q
        /\ ncalls = 2
        /\ q \in tree.qcs
        /\ q \in log.qcs
        /\ tree.hqc = q

C22_OneQcPerRound ==
    \A p, q \in tree.qcs : RoundOf(p.cert) = RoundOf(q.cert) => p = q

\* The siblings B2 and D2 of round 2 are in the tree, a QC has been inserted
\* with success for each, and the tree holds one QC of round 2.
C22_Witness ==
    \E t, u \in Threads :
        /\ th[t].res = "qc_ok" /\ th[t].qc.cert = "B2"
        /\ th[u].res = "qc_ok" /\ th[u].qc.cert = "D2"
        /\ {"B2", "D2"} \subseteq tree.blocks
        /\ Cardinality({q \in tree.qcs : RoundOf(q.cert) = 2}) = 1

\* Thread t calls insert_timeout_certificate with a TC of round r in this step.
TcCalled(t, r) ==
    /\ ncalls' = ncalls + 1
    /\ th[t].pc = "idle"
    /\ \A u \in Threads \ {t} : th'[u] = th[u]
    /\ th'[t].tc = r
    /\ \/ th'[t].pc = "tc_save"
       \/ th'[t].pc = "idle" /\ th'[t].res = "tc_ok_noop"

\* C23: insert_timeout_certificate called with a TC of a round <= the round
\* of the current highest TC (0 where there is none) returns Ok at once: no
\* call on the log, highest_timeout_cert unchanged.
C23_TcNoOp ==
    [][\A t \in Threads : \A r \in TcRounds :
         (TcCalled(t, r) /\ r <= CurTcRound(tree))
         => /\ th'[t].pc = "idle"
            /\ th'[t].res = "tc_ok_noop"
            /\ UNCHANGED <<tree, log, hist>>]_vars

\* A TC has been installed and a second call with a TC of the same or a lower
\* round (above 0) has returned Ok without a write.
C23_Witness ==
    \E t, u \in Threads :
        /\ th[t].res = "tc_ok" /\ tree.htc = {th[t].tc}
        /\ th[u].res = "tc_ok_noop" /\ th[u].tc > 0 /\ th[u].tc <= th[t].tc
        /\ log.tc = {th[t].tc}

\* C24: on a store that is not rebuilt, the round of highest_timeout_cert
\* never decreases from one state to the next, concurrent calls of
\* insert_timeout_certificate included.
C24_TcRoundNeverDecreases ==
    [][hist'.rebuilds = 0 => CurTcRound(tree') >= CurTcRound(tree)]_vars

\* C25: a step of insert_timeout_certificate in which
\* save_highest_timeout_cert fails returns the error, and neither it nor an
\* earlier step of the call has changed the tree.
C25_TcSaveFailureLeavesTree ==
    [][\A t \in Threads :
         (th[t].pc = "tc_save" /\ th'[t].pc = "idle")
         => /\ th'[t].res = "tc_err_save"
            /\ tree' = tree
            /\ log' = log
            /\ "tree" \notin th[t].eff]_vars

\* save_highest_timeout_cert has failed for a TC above the current one, which
\* the tree does not hold.
C25_Witness ==
    \E t \in Threads :
        /\ th[t].res = "tc_err_save"
        /\ th[t].tc > CurTcRound(tree)
        /\ th[t].tc \notin tree.htc

\* C26: the recovery from BlockNotFound(parent) either has the executor
\* compute the blocks of path_from_ordered_root(parent) in chain order and
\* then the block, and goes on to wait_until exactly as a call whose first
\* compute succeeded (same block, tree and log untouched so far), or returns
\* the executor's error with nothing persisted or inserted; so does any other
\* error of the first compute; and save_tree and insert_block act on the block
\* alone, whatever the way the executor came to its result.
C26_MissingParentRecovery ==
    [][\A t \in Threads :
         /\ (th[t].pc = "ei_reexec" /\ th'[t] # th[t])
            => /\ \/ /\ th'[t].pc = "ei_wait"
                     /\ th'[t].blk = th[t].blk
                     /\ th'[t].path =
                          Append(PathFromOrderedRoot(tree, ParentOf(th[t].blk)),
                                 th[t].blk)
                  \/ /\ th'[t].pc = "idle"
                     /\ th'[t].res = "ei_err_execute"
               /\ th[t].eff \cap {"save", "tree"} = {}
               /\ UNCHANGED <<tree, log, hist>>
         /\ (th[t].pc = "ei_exec" /\ th'[t].pc = "idle")
            => /\ th'[t].res = "ei_err_execute"
               /\ th[t].eff \cap {"save", "tree"} = {}
               /\ UNCHANGED <<tree, log, hist>>
         /\ (th[t].pc = "ei_save" /\ th'[t].pc = "ei_insert")
            => /\ log' = [log EXCEPT !.blocks = @ \cup {th[t].blk}]
               /\ tree' = tree
               /\ th'[t].path = << >>
         /\ (th[t].pc = "ei_insert" /\ th'[t] # th[t])
            => /\ tree' = InsertBlock(tree, th[t].blk).tree
               /\ log' = log]_vars

\* The executor has reported BlockNotFound for B2, whose parent B1 is the
\* child of the ordered root: B1 and then B2 have been computed again and
\* the call goes on to wait_until and save_tree.
C26_Witness ==
    \E t \in Threads :
        /\ th[t].pc = "ei_wait"
        /\ th[t].blk = "B2"
        /\ th[t].path = <<"B1", "B2">>
        /\ "B2" \notin tree.blocks
        /\ "B2" \notin log.blocks

\* C27: execute_and_insert_block persists a block and inserts it into the
\* tree only with the local clock at or past the block's timestamp: a call
\* that has passed wait_until stays so, the steps that write the block to the
\* log and to the tree are taken at such a time, and so is the build of a
\* rebuild for the blocks handed to it.
C27_NoFutureTimestamp ==
    [][\A t \in Threads :
         /\ (th[t].pc = "ei_save" /\ th'[t].pc = "ei_insert")
            => TimestampOf(th[t].blk) <= now
         /\ (th[t].pc = "ei_insert" /\ th'[t] # th[t])
            => TimestampOf(th[t].blk) <= now
         /\ (th[t].pc = "idle" /\ th'[t].pc = "rb_ids")
            => \A b \in th'[t].newtree[1].blocks
                         \ {th'[t].newtree[1].commit_root} :
                 TimestampOf(b) <= now]_vars

\* A store built from genesis alone at time 0 holds B1, whose timestamp is 1,
\* in its tree and in its log: the call has waited for the clock.
C27_Witness ==
    /\ hist.rebuilds = 0
    /\ nhandoff = 0
    /\ \E t \in Threads : th[t].res = "ei_ok" /\ th[t].blk = "B1"
    /\ tree.blocks = {"G", "B1"}
    /\ "B1" \in log.blocks
    /\ TimestampOf("B1") > 0
    /\ now >= TimestampOf("B1")

\* The step by which thread t starts a rebuild (the build of the new store),
\* and the one by which its rebuild returns.
RebuildStarts(t) == th[t].pc = "idle" /\ th'[t].op = "rebuild"
RebuildReturns(t) ==
    th[t].op = "rebuild" /\ th[t].pc = "try_next" /\ th'[t].res = "rb_ok"

\* No other call was in progress when t's rebuild started and none has
\* started since.
RebuildAlone(t) == th[t].inp[1].quiet /\ ncalls = th[t].inp[1].calls

\* C28: when a rebuild that ran without any other call beside it returns, every block of the tree is the supplied root or one of
\* the supplied blocks, commit_root is the supplied root or the block a
\* supplied QC commits (the try_commit replay), and with no block supplied
\* the tree holds one block and commit_root has the round of the new root.
C28_RebuildReplacesTree ==
    [][\A t \in Threads :
         (RebuildReturns(t) /\ RebuildAlone(t)) =>
            LET inp == th[t].inp[1]
                supplied == {inp.root} \cup Range(inp.blocks)
            IN  /\ tree'.blocks \subseteq supplied
                /\ tree'.commit_root \in {inp.root} \cup
                      ({q.commit : q \in Range(inp.qcs)} \cap supplied)
                /\ inp.blocks = << >> =>
                      /\ Cardinality(tree'.blocks) = 1
                      /\ RoundOf(tree'.commit_root) = RoundOf(inp.root)]_vars

\* C29: the store rebuild builds holds the TC the tree held when rebuild
\* started, and that store becomes the tree as it is, whatever the round of
\* the new root: highest_timeout_cert is None only where the old tree had none.
C29_TcCarriedOver ==
    [][\A t \in Threads :
         /\ (RebuildStarts(t) /\ th'[t].pc = "rb_ids")
              => th'[t].newtree[1].htc = tree.htc
         /\ (th[t].pc = "rb_swap" /\ th'[t].pc = "try_certs")
              => tree'.htc = th[t].newtree[1].htc]_vars

\* A rebuild on root B2 (round 2) has just put its store in place and the
\* tree holds the TC of round 1.
C29_Witness ==
    \E t \in Threads :
        /\ th[t].op = "rebuild" /\ th[t].pc = "try_certs"
        /\ tree.commit_root = "B2" /\ tree.htc = {1}
        /\ RoundOf(tree.commit_root) > 1

\* Whether the i-th recovered block cannot be inserted after the ones before
\* it: it is not there yet and its round is not above the root's or its
\* parent is not there.
BlockInsertFails(root, blocks, i) ==
    LET prior == {root} \cup {blocks[j] : j \in 1..(i - 1)}
    IN  /\ blocks[i] \notin prior
        /\ \/ RoundOf(blocks[i]) <= RoundOf(root)
           \/ ParentOf(blocks[i]) \notin prior

\* Whether a recovered QC cannot be inserted after all the recovered blocks.
QcInsertFails(root, blocks, qc) ==
    qc.cert \notin ({root} \cup Range(blocks)) \/ ~qc.matches

\* C30: the build of a store panics when the insertion of a recovered block,
\* after the ones listed before it, or of a recovered QC, after all the
\* blocks, fails; a build that does not panic holds all the recovered blocks.
C30_BuildPanicsOnFailedInsertion ==
    [][\A t \in Threads :
         RebuildStarts(t) =>
            LET inp == th'[t].inp[1]
                fails == \/ \E i \in DOMAIN inp.blocks :
                              BlockInsertFails(inp.root, inp.blocks, i)
                         \/ \E q \in Range(inp.qcs) :
                              QcInsertFails(inp.root, inp.blocks, q)
            IN  /\ fails => (th'[t].pc = "rb_panic" /\ aborted' /\ tree' = tree)
                /\ th'[t].pc = "rb_ids" =>
                      th'[t].newtree[1].blocks = {inp.root} \cup Range(inp.blocks)]_vars

\* A rebuild handed B2 before its parent B1 has panicked in build.
C30_Witness ==
    \E t \in Threads :
        /\ th[t].pc = "rb_panic" /\ aborted
        /\ th[t].inp[1].blocks = <<"B2", "B1">>

C32_OrderedRootLinearizes ==
    hist.rebuilds = 0 =>
       \A t \in Threads :
          th[t].pc \in {"cm_exec", "cm_await"} =>
             /\ "ordered_root" \in th[t].eff
             /\ IsAncestorOrEqual(th[t].blk, tree.ordered_root)

\* C33: a commit callback makes three steps in this order: it sets
\* highest_ledger_info to its target and touches neither the commit root,
\* the blocks nor the log; it computes find_blocks_to_prune(target) on the
\* tree as it is then and prunes those ids from the log (or the log refuses),
\* the tree unchanged; last, in one step, it sets commit_root_id to the
\* target and removes exactly those ids from the tree, the log unchanged.
C33_CallbackOrder ==
    [][\A c \in cbs :
         (c \notin cbs' /\ ~aborted') =>
            LET next == {d \in cbs' \ cbs : d.id = c.id}
            IN  CASE c.pc = "cb_li" ->
                       /\ \E d \in next : d.pc = "cb_find"
                       /\ tree'.hli = c.target
                       /\ tree'.commit_root = tree.commit_root
                       /\ tree'.blocks = tree.blocks
                       /\ log' = log
                  [] c.pc = "cb_find" ->
                       /\ \E d \in next :
                             /\ d.pc = "cb_update"
                             /\ d.ids = FindBlocksToPrune(tree, c.target)
                             /\ \/ log' = log
                                \/ log'.blocks = log.blocks \ Range(d.ids)
                       /\ tree' = tree
                  [] c.pc = "cb_update" ->
                       /\ next = {}
                       /\ tree'.commit_root = c.target
                       /\ tree'.blocks = tree.blocks \ Range(c.ids)
                       /\ log' = log
                  [] OTHER -> FALSE]_vars

\* The callback of commit(B2) on G -> B1 -> B2 has pruned G and B1 from the
\* log and stands before its last step: the tree still holds B1 and its
\* commit root is still G.
C33_Witness ==
    /\ hist.rebuilds = 0 /\ nhandoff = 1
    /\ \E c \in cbs : /\ c.pc = "cb_update" /\ c.target = "B2"
                      /\ Range(c.ids) = {"G", "B1"} /\ c.logok
    /\ tree.hli = "B2" /\ tree.commit_root = "G"
    /\ "B1" \in tree.blocks /\ "B1" \notin log.blocks

\* C34: on a store that is not rebuilt, the batch of every commit that
\* advances the ordered root (the batch it then hands to the executor) is a
\* parent-linked chain of blocks none of which was in the batch of a commit
\* that advanced the ordered root before, and it starts at a child of the
\* initial root or of a block of such a batch: taken in the order of the
\* advances the batches make one chain without gap or repetition.
C34_NoBlockCommittedTwice ==
    [][\A t \in Threads :
         (th[t].pc = "cm_root" /\ th'[t].pc = "cm_exec" /\ hist.rebuilds = 0) =>
            LET batch == th[t].path
            IN  /\ batch # << >>
                /\ Range(batch) \cap hist.handed = {}
                /\ ParentOf(batch[1]) \in hist.handed \cup {"G"}
                /\ \A i \in 2..Len(batch) : ParentOf(batch[i]) = batch[i - 1]]_vars

\* C36: in every reachable state the round that highest_ordered_cert commits
\* is at least the round of the commit root.
C36_OrderedCertCoversCommitRoot ==
    CommitRound(tree.hoc) >= RoundOf(tree.commit_root)

\* The step is the write of ordered_root_id by a commit, the last step of a
\* commit callback, or the replacement of the tree by rebuild.
OrderedRootWrite ==
    \E t \in Threads : /\ th[t].pc = "cm_root" /\ th'[t].pc = "cm_exec"
                        /\ tree'.ordered_root = th[t].blk
CommitRootWrite ==
    \E c \in cbs : /\ c.pc = "cb_update" /\ c \notin cbs'
                    /\ tree'.commit_root = c.target
TreeReplaced ==
    \E t \in Threads : /\ th[t].op = "rebuild" /\ th[t].pc = "rb_swap"
                        /\ th'[t].pc = "try_certs"

\* C37: no step of execute_and_insert_block, insert_single_quorum_cert or
\* insert_timeout_certificate changes ordered_root_id or commit_root_id;
\* ordered_root_id changes only in commit's write or in rebuild's replacement
\* of the tree, commit_root_id only in the last step of a commit callback or
\* in that replacement.
C37_RootsWrittenByCommitOnly ==
    [][/\ \A t \in Threads :
            (th[t].op \in {"insert", "qc", "tc"} /\ th'[t] # th[t]) =>
               /\ tree'.ordered_root = tree.ordered_root
               /\ tree'.commit_root = tree.commit_root
       /\ tree'.ordered_root # tree.ordered_root => (OrderedRootWrite \/ TreeReplaced)
       /\ tree'.commit_root # tree.commit_root => (CommitRootWrite \/ TreeReplaced)]_vars

\* D2 has been inserted and then its QC, in a tree whose roots are still G.
C37_Witness ==
    /\ hist.rebuilds = 0 /\ nhandoff = 0
    /\ \E t \in Threads : th[t].res = "ei_ok" /\ th[t].blk = "D2"
    /\ \E t \in Threads : th[t].res = "qc_ok" /\ th[t].qc.cert = "D2"
    /\ "D2" \in tree.blocks
    /\ \E q \in tree.qcs : q.cert = "D2"
    /\ tree.ordered_root = "G" /\ tree.commit_root = "G"

\* The executor has failed a commit, or a build of rebuild has failed.
EnvironmentFailed == \E t \in Threads : th[t].pc \in {"cm_panic", "rb_panic"}

\* C38: where the executor fails no commit, runs every callback and
\* resolves every future, a commit that has advanced ordered_root to its
\* target is followed by a state where the round of commit_root is at least
\* the target's, and the commit gets past the executor (it returns Ok).
C38_CommitEventuallyApplies ==
    \A t \in Threads : \A b \in Blocks :
        /\ (th[t].pc = "cm_exec" /\ th[t].blk = b)
             ~> (RoundOf(tree.commit_root) >= RoundOf(b) \/ EnvironmentFailed)
        /\ (th[t].pc = "cm_exec" /\ th[t].blk = b)
             ~> (th[t].pc \notin {"cm_exec", "cm_await"} \/ EnvironmentFailed)

\* C39: where no call on the log has failed and nothing is in progress (no
\* call, no callback), every block of the tree that is not a root handed to
\* the constructor or to rebuild is in the block table of the log.
C39_TreeBlocksInLog ==
    (/\ ~hist.logfail /\ ~aborted /\ cbs = {}
     /\ \A t \in Threads : th[t].pc = "idle")
    => \A b \in tree.blocks \ hist.roots : b \in log.blocks

\* C40: insert_timeout_certificate called with a TC of round 0 on a store
\* that holds no TC returns Ok at once, with no call on the log and
\* highest_timeout_cert still None; every TC the tree comes to hold has a
\* round of at least 1.
C40_TcRoundZeroNeverInstalled ==
    [][/\ \A t \in Threads :
            (TcCalled(t, 0) /\ tree.htc = {})
            => /\ th'[t].pc = "idle"
               /\ th'[t].res = "tc_ok_noop"
               /\ tree'.htc = {}
               /\ UNCHANGED <<tree, log, hist>>
       /\ \A r \in tree'.htc : r >= 1]_vars

\* A TC of round 0 has been handed to a store without TC and the call has
\* returned Ok: neither the tree nor the log holds a TC.
C40_Witness ==
    /\ \E t \in Threads : th[t].res = "tc_ok_noop" /\ th[t].tc = 0
    /\ tree.htc = {} /\ log.tc = {} /\ hist.tcs = {}
    /\ hist.rebuilds = 0

====
